---- MODULE Spec2Model ----
(***************************************************************************)
(* Model of the KCB DAT file parser (packapp/utils/dat_parser_simple.py):  *)
(* the fixed-width record decoder, the order-to-book expander and the file *)
(* metadata, driven by the callers that hold one DATFileParser; of the     *)
(* grouping of the books by delivery branch (packing_list_generator.py),   *)
(* the order of the books table (pdf_mapper.py), the batch loop of the     *)
(* orchestrator (generate_packing_list.py) and the job status handling of  *)
(* PackingListService.process_dat_file (services.py).                      *)
(*                                                                         *)
(* A Python str is modelled as a sequence of one-character strings, so     *)
(* that slicing, strip(), ljust(), int() and zfill() are computed as the   *)
(* code computes them.                                                     *)
(***************************************************************************)
EXTENDS Integers, Sequences, FiniteSets, TLC

VARIABLES
    orders,     \* DATFileParser.orders: the OrderRecords the parser holds
    file,       \* the lines of the file handed to the last parse_file call
    before,     \* len(self.orders) when the last parse_file call started
    outcome,    \* "none" (no call yet), "ok" (returned), "raised" (ValueError left parse_file)
    expanded,   \* parsed_data['expanded_orders'] of the last call (<<>> when it raised)
    fed,        \* number of lines this parser has read so far (an empty file counts as one)
    path,       \* the file_path handed to the last parse_file call
    filename,   \* DATFileParser.filename
    extracted_order_number,  \* DATFileParser.extracted_order_number
    source,     \* for each record of orders, the line it was decoded from
    packing_lists,   \* the packing lists generated from the last file (<<>> when parsing raised)
    rendered,   \* the rows of the books table of each page of the last PDF (<<>> when none was built)
    batch,      \* the file paths the orchestrator has processed, in order
    results,    \* for each of them, "ok" (a PDF path was returned) or "failed" (an exception was caught)
    generated_pdfs,  \* PackingListOrchestrator.process_multiple_files: generated_pdfs
    job,        \* the fields PackingListService.process_dat_file has set on the job of its last call
    job_statuses,    \* the values assigned to job.status during that call, in order
    job_saved,  \* the values of job.status that a job.save() of that call has written, in order
    call        \* "none" (no call of the service yet), "returned" or "raised"

vars ==
    <<orders, file, before, outcome, expanded, fed, path, filename, extracted_order_number,
      source, packing_lists, rendered, batch, results, generated_pdfs,
      job, job_statuses, job_saved, call>>

\* Total number of lines one parser reads in a run of the model.
MaxLines == 3

-----------------------------------------------------------------------------
(* Python str primitives *)

Min(a, b) == IF a < b THEN a ELSE b
Max(a, b) == IF a > b THEN a ELSE b

DigitChars == <<"0", "1", "2", "3", "4", "5", "6", "7", "8", "9">>
Digit == {DigitChars[i] : i \in 1..10}
DigitVal(c) == CHOOSE d \in 0..9 : DigitChars[d + 1] = c

\* str.isspace() for the characters of the model
Whitespace == {" ", "\t"}

\* n copies of the character c
Rep(c, n) == [i \in 1..n |-> c]

\* s[a:b] with 0 <= a <= b (Python slice: clipped to the string, never raises)
Slice(s, a, b) == SubSeq(s, a + 1, Min(b, Len(s)))

RECURSIVE LStrip(_)
LStrip(s) == IF s # <<>> /\ Head(s) \in Whitespace THEN LStrip(Tail(s)) ELSE s

RECURSIVE RStrip(_)
RStrip(s) ==
    IF s # <<>> /\ s[Len(s)] \in Whitespace THEN RStrip(SubSeq(s, 1, Len(s) - 1)) ELSE s

\* str.strip()
Strip(s) == RStrip(LStrip(s))

\* str.ljust(width): pads with spaces on the right, never truncates
Ljust(s, width) == IF Len(s) >= width THEN s ELSE s \o Rep(" ", width - Len(s))

\* The digits-and-underscores body of an integer literal: digit (["_"] digit)*
RECURSIVE IntBodyOK(_)
IntBodyOK(s) ==
    /\ s # <<>>
    /\ Head(s) \in Digit
    /\ \/ Len(s) = 1
       \/ /\ s[2] = "_"
          /\ IntBodyOK(SubSeq(s, 3, Len(s)))
       \/ /\ s[2] # "_"
          /\ IntBodyOK(Tail(s))

RECURSIVE IntBodyVal(_, _)
IntBodyVal(s, acc) ==
    IF s = <<>> THEN acc
    ELSE IF Head(s) = "_" THEN IntBodyVal(Tail(s), acc)
    ELSE IntBodyVal(Tail(s), 10 * acc + DigitVal(Head(s)))

\* int(s) returns (TRUE) or raises ValueError (FALSE)
IntOK(s) ==
    LET t == Strip(s) IN
    IF t # <<>> /\ Head(t) \in {"+", "-"} THEN IntBodyOK(Tail(t)) ELSE IntBodyOK(t)

\* int(s), where it returns
PyInt(s) ==
    LET t == Strip(s) IN
    IF Head(t) = "-" THEN -IntBodyVal(Tail(t), 0)
    ELSE IF Head(t) = "+" THEN IntBodyVal(Tail(t), 0)
    ELSE IntBodyVal(t, 0)

RECURSIVE NatStr(_)
NatStr(n) == IF n < 10 THEN <<DigitChars[n + 1]>> ELSE NatStr(n \div 10) \o <<DigitChars[(n % 10) + 1]>>

\* str(n)
Str(n) == IF n < 0 THEN <<"-">> \o NatStr(-n) ELSE NatStr(n)

\* str.zfill(width): zeros go after a leading sign; never truncates
Zfill(s, width) ==
    IF Len(s) >= width THEN s
    ELSE IF s # <<>> /\ Head(s) \in {"+", "-"}
         THEN <<Head(s)>> \o Rep("0", width - Len(s)) \o Tail(s)
         ELSE Rep("0", width - Len(s)) \o s

-----------------------------------------------------------------------------
(* DATFileParser.extract_order_number_from_filename *)

\* The index of the last element of s that is in set, 0 when there is none
LastIndexIn(s, set) ==
    IF \E i \in 1..Len(s) : s[i] \in set
    THEN CHOOSE i \in 1..Len(s) : s[i] \in set /\ \A j \in (i + 1)..Len(s) : s[j] \notin set
    ELSE 0

\* os.path.basename(file_path)
Basename(file_path) == SubSeq(file_path, LastIndexIn(file_path, {"/"}) + 1, Len(file_path))

\* Path(file_path).stem: the base name without its last suffix
Stem(file_path) ==
    LET name == Basename(file_path)
        dot == LastIndexIn(name, {"."})
    IN  IF dot > 1 /\ dot < Len(name) THEN SubSeq(name, 1, dot - 1) ELSE name

\* The length of the run of digits of s that starts at index i
RECURSIVE DigitRun(_, _)
DigitRun(s, i) == IF i <= Len(s) /\ s[i] \in Digit THEN 1 + DigitRun(s, i + 1) ELSE 0

\* re.search(r'KCB-(\d+)', s, re.IGNORECASE) matches at index i
KcbAt(s, i) ==
    /\ i + 4 <= Len(s)
    /\ s[i] \in {"K", "k"} /\ s[i + 1] \in {"C", "c"} /\ s[i + 2] \in {"B", "b"} /\ s[i + 3] = "-"
    /\ s[i + 4] \in Digit

\* re.search(r'(\d{3,6})', s) matches at index i
DigitsAt(s, i) == DigitRun(s, i) >= 3

\* group(1) of the leftmost match of r'KCB-(\d+)': the whole run of digits
KcbGroup(s) ==
    LET i == CHOOSE k \in 1..Len(s) : KcbAt(s, k) /\ \A j \in 1..(k - 1) : ~KcbAt(s, j)
    IN  SubSeq(s, i + 4, i + 3 + DigitRun(s, i + 4))

\* group(1) of the leftmost match of r'(\d{3,6})': at most 6 digits of the run
DigitsGroup(s) ==
    LET i == CHOOSE k \in 1..Len(s) : DigitsAt(s, k) /\ \A j \in 1..(k - 1) : ~DigitsAt(s, j)
    IN  SubSeq(s, i, i - 1 + Min(DigitRun(s, i), 6))

\* The return value, now being datetime.now().strftime("%m%d%H")
extract_order_number_from_filename(file_path, now) ==
    LET name == Basename(file_path) IN
    IF \E i \in 1..Len(name) : KcbAt(name, i) THEN Zfill(KcbGroup(name), 6)
    ELSE IF \E i \in 1..Len(name) : DigitsAt(name, i) THEN Zfill(DigitsGroup(name), 6)
    ELSE Zfill(now, 6)

-----------------------------------------------------------------------------
(* DATFileParser: lookup tables *)

\* The keys of BOOK_STYLES and of SERIAL_INCREMENTS (the two tables have the same keys)
KnownStyles ==
    { <<"0","1">>, <<"0","2">>, <<"2","5">>, <<"4","5">>, <<"3","1">>, <<"5","1">>, <<"3","2">>,
      <<"5","2">>, <<"4","0">>, <<"6","9">>, <<"7","1">>, <<"7","2">>, <<"7","3">>, <<"7","4">> }

\* The styles of 100 leaves (and serial increment 100); the others have 50
LargeStyles ==
    { <<"0","2">>, <<"4","5">>, <<"5","1">>, <<"5","2">>, <<"6","9">>,
      <<"7","1">>, <<"7","2">>, <<"7","3">>, <<"7","4">> }

\* SERIAL_INCREMENTS.get(book_style, 50)
SerialIncrementDefault100(book_style) ==
    IF book_style \in KnownStyles /\ book_style \notin LargeStyles THEN 50 ELSE 100
SerialIncrement(book_style) ==
    IF book_style \in KnownStyles THEN (IF book_style \in LargeStyles THEN 100 ELSE 50) ELSE 50

StyleType(book_style) ==
    CASE book_style = <<"0","1">> -> "Personal KES"
      [] book_style = <<"0","2">> -> "Corporate KES"
      [] book_style = <<"2","5">> -> "South African Rand Small"
      [] book_style = <<"4","5">> -> "South African Rand Large"
      [] book_style = <<"3","1">> -> "Sterling Pound Small"
      [] book_style = <<"5","1">> -> "Sterling Pound Large"
      [] book_style = <<"3","2">> -> "USA Dollar Small"
      [] book_style = <<"5","2">> -> "USA Dollar Large"
      [] book_style = <<"4","0">> -> "EURO Small"
      [] book_style = <<"6","9">> -> "EURO Large"
      [] book_style = <<"7","1">> -> "KES Banker's Cheques"
      [] book_style = <<"7","2">> -> "USD Banker's Cheques"
      [] book_style = <<"7","3">> -> "GBP Banker's Cheques"
      [] book_style = <<"7","4">> -> "EUR Banker's Cheques"
      [] OTHER -> "Unknown"

StyleCurrency(book_style) ==
    CASE book_style \in {<<"0","1">>, <<"0","2">>, <<"7","1">>} -> "KES"
      [] book_style \in {<<"2","5">>, <<"4","5">>} -> "ZAR"
      [] book_style \in {<<"3","1">>, <<"5","1">>, <<"7","3">>} -> "GBP"
      [] book_style \in {<<"3","2">>, <<"5","2">>, <<"7","2">>} -> "USD"
      [] book_style \in {<<"4","0">>, <<"6","9">>, <<"7","4">>} -> "EUR"
      [] OTHER -> "KES"

StyleLeaves(book_style) ==
    IF book_style \in KnownStyles THEN (IF book_style \in LargeStyles THEN 100 ELSE 50) ELSE 50

-----------------------------------------------------------------------------
(* DATFileParser._parse_order_record *)

\* The width every line is padded to before it is sliced
LineWidth == 210

\* None, and an OrderRecord r, as the decoder returns them
None == <<>>
Some(r) == <<r>>

\* line = line.ljust(210) when len(line) < 210
PadLine(line) == IF Len(line) < LineWidth THEN Ljust(line, LineWidth) ELSE line

\* The OrderRecord built from a padded line l and the parsed number of books
OrderRecordOverlap(l, num_books) ==
    [ bank_id                |-> Strip(Slice(l, 0, 2)),
      order_id               |-> Strip(Slice(l, 2, 3)),
      priority               |-> Strip(Slice(l, 3, 4)),
      sort_code              |-> Strip(Slice(l, 4, 9)),
      account_number         |-> Strip(Slice(l, 9, 19)),
      check_digit            |-> Strip(Slice(l, 19, 20)),
      cheque_voucher_digits  |-> Strip(Slice(l, 20, 22)),
      credits_voucher_digits |-> Strip(Slice(l, 22, 24)),
      book_style             |-> Strip(Slice(l, 24, 26)),
      number_of_books        |-> num_books,
      cheque_start_serial    |-> Strip(Slice(l, 29, 36)),
      credits_start_serial   |-> Strip(Slice(l, 36, 42)),
      personalization        |-> Strip(Slice(l, 42, 78)),
      branch_title           |-> Strip(Slice(l, 78, 108)),
      branch_address         |-> Strip(Slice(l, 108, 138)),
      signature_required     |-> Strip(Slice(l, 138, 139)),
      beneficiary_name       |-> Strip(Slice(l, 139, 169)),
      delivery_branch_code   |-> Strip(Slice(l, 169, 174)),
      delivery_branch_name   |-> Strip(Slice(l, 174, 210)) ]
OrderRecord(l, num_books) ==
    [ bank_id                |-> Strip(Slice(l, 0, 2)),
      order_id               |-> Strip(Slice(l, 2, 3)),
      priority               |-> Strip(Slice(l, 3, 4)),
      sort_code              |-> Strip(Slice(l, 4, 9)),
      account_number         |-> Strip(Slice(l, 9, 19)),
      check_digit            |-> Strip(Slice(l, 19, 20)),
      cheque_voucher_digits  |-> Strip(Slice(l, 20, 22)),
      credits_voucher_digits |-> Strip(Slice(l, 22, 24)),
      book_style             |-> Strip(Slice(l, 24, 26)),
      number_of_books        |-> num_books,
      cheque_start_serial    |-> Strip(Slice(l, 30, 36)),
      credits_start_serial   |-> Strip(Slice(l, 36, 42)),
      personalization        |-> Strip(Slice(l, 42, 78)),
      branch_title           |-> Strip(Slice(l, 78, 108)),
      branch_address         |-> Strip(Slice(l, 108, 138)),
      signature_required     |-> Strip(Slice(l, 138, 139)),
      beneficiary_name       |-> Strip(Slice(l, 139, 169)),
      delivery_branch_code   |-> Strip(Slice(l, 169, 174)),
      delivery_branch_name   |-> Strip(Slice(l, 174, 210)) ]

\* The decoder: None when int() of the number-of-books field raises ValueError
parse_order_record_reject_short(line) ==
    LET l == PadLine(line)
        num_books_str == Strip(Slice(l, 26, 30))
    IN  IF Len(line) < LineWidth THEN None
        ELSE IF num_books_str = <<>> THEN Some(OrderRecord(l, 1))
        ELSE IF IntOK(num_books_str) THEN Some(OrderRecord(l, PyInt(num_books_str)))
        ELSE None
parse_order_record_stateful(line) ==
    LET l == PadLine(line)
        num_books_str == Strip(Slice(l, 26, 30))
    IN  IF orders # <<>> THEN Some(orders[Len(orders)])
        ELSE IF num_books_str = <<>> THEN Some(OrderRecord(l, 1))
        ELSE IF IntOK(num_books_str) THEN Some(OrderRecord(l, PyInt(num_books_str)))
        ELSE None
parse_order_record(line) ==
    LET l == PadLine(line)
        num_books_str == Strip(Slice(l, 26, 30))
    IN  IF num_books_str = <<>> THEN Some(OrderRecord(l, 1))
        ELSE IF IntOK(num_books_str) THEN Some(OrderRecord(l, PyInt(num_books_str)))
        ELSE None

-----------------------------------------------------------------------------
(* DATFileParser.parse_file: the loop over the lines *)

\* A line the loop hands to the decoder: not blank, at least 3 characters, line[2] == '1'
IsOrderLineAnyFlag(line) == Strip(line) # <<>> /\ Len(line) >= 3 /\ line[3] # "0"
IsOrderLine(line) == Strip(line) # <<>> /\ Len(line) >= 3 /\ line[3] = "1"

\* The orders the loop appends for the lines from index i on
RECURSIVE ReadLinesStopAtNone(_, _)
ReadLinesStopAtNone(lines, i) ==
    IF i > Len(lines) THEN <<>>
    ELSE IF IsOrderLine(lines[i])
         THEN IF parse_order_record(lines[i]) = None THEN <<>>
              ELSE parse_order_record(lines[i]) \o ReadLinesStopAtNone(lines, i + 1)
         ELSE ReadLinesStopAtNone(lines, i + 1)
RECURSIVE ReadLines(_, _)
ReadLines(lines, i) ==
    IF i > Len(lines) THEN <<>>
    ELSE IF IsOrderLine(lines[i])
         THEN parse_order_record(lines[i]) \o ReadLines(lines, i + 1)
         ELSE ReadLines(lines, i + 1)

-----------------------------------------------------------------------------
(* DATFileParser._order_to_dict and _expand_orders_with_books *)

order_to_dict_delivery_branch(order, serial) ==
    [ book_style            |-> order.book_style,
      book_type_description |-> StyleType(order.book_style),
      currency              |-> StyleCurrency(order.book_style),
      leaves                |-> StyleLeaves(order.book_style),
      branch_code           |-> IF serial = order.cheque_start_serial
                                THEN order.sort_code ELSE order.delivery_branch_code,
      account_number        |-> order.account_number,
      serial_number         |-> serial,
      account_name          |-> Strip(order.personalization),
      branch_title          |-> Strip(order.branch_title),
      branch_address        |-> Strip(order.branch_address),
      delivery_branch_code  |-> order.delivery_branch_code,
      delivery_branch_name  |-> Strip(order.delivery_branch_name),
      number_of_books       |-> order.number_of_books ]
order_to_dict(order, serial) ==
    [ book_style            |-> order.book_style,
      book_type_description |-> StyleType(order.book_style),
      currency              |-> StyleCurrency(order.book_style),
      leaves                |-> StyleLeaves(order.book_style),
      branch_code           |-> order.sort_code,
      account_number        |-> order.account_number,
      serial_number         |-> serial,
      account_name          |-> Strip(order.personalization),
      branch_title          |-> Strip(order.branch_title),
      branch_address        |-> Strip(order.branch_address),
      delivery_branch_code  |-> order.delivery_branch_code,
      delivery_branch_name  |-> Strip(order.delivery_branch_name),
      number_of_books       |-> order.number_of_books ]

\* The last value of range(1, number_of_books): the loop runs book_num = 1 .. LastBookNum
LastBookNumInclusive(number_of_books) == number_of_books
LastBookNum(number_of_books) == number_of_books - 1

\* The books the inner loop appends from book_num on, current_serial being the
\* serial of the book before
RECURSIVE AdditionalBooks(_, _, _)
AdditionalBooks(order, current_serial, book_num) ==
    IF book_num > LastBookNum(order.number_of_books) THEN <<>>
    ELSE LET next_serial == current_serial + SerialIncrement(order.book_style)
             new_serial == Zfill(Str(next_serial), 6)
         IN  <<order_to_dict(order, new_serial)>>
                 \o AdditionalBooks(order, next_serial, book_num + 1)

\* One iteration of the outer loop, for an order whose serial int() accepts
ExpandOrder(order) ==
    <<order_to_dict(order, order.cheque_start_serial)>>
        \o AdditionalBooks(order, PyInt(order.cheque_start_serial), 1)

\* int(order.cheque_start_serial) raises ValueError for some order of the list
ExpandRaises(os) == \E i \in 1..Len(os) : ~IntOK(os[i].cheque_start_serial)

\* expanded, when no order raises
AppendBooksReversed(done, books) == books \o done
AppendBooks(done, books) == done \o books

RECURSIVE ExpandFrom(_, _, _)
ExpandFrom(os, i, done) ==
    IF i > Len(os) THEN done ELSE ExpandFrom(os, i + 1, AppendBooks(done, ExpandOrder(os[i])))

expand_orders_with_books(os) == ExpandFrom(os, 1, <<>>)

\* DATFileParser.get_file_metadata: total_orders and total_books of the parser
RECURSIVE SumBooks(_, _)
SumBooks(os, i) == IF i > Len(os) THEN 0 ELSE os[i].number_of_books + SumBooks(os, i + 1)

total_orders == Len(orders)
total_books == SumBooks(orders, 1)

\* The dict get_file_metadata returns (file_date, the day of the call, left out)
get_file_metadata ==
    [ bank_id       |-> <<"0", "1">>,
      run_number    |-> extracted_order_number,
      supplier_code |-> <<"T", "D">>,
      total_orders  |-> total_orders,
      total_books   |-> total_books,
      filename      |-> filename ]

-----------------------------------------------------------------------------
(* PackingListGenerator and the books table of PackingListPDFMapper *)

\* The characters of the model in code point order
CharOrder ==
    <<"\t", " ", "+", "-", ".", "/", "0", "1", "2", "3", "4", "5", "6", "7", "8", "9",
      "A", "B", "C", "D", "E", "G", "I", "J", "K", "L", "M", "N", "O", "R", "T", "V", "X", "Y",
      "_", "a", "b", "c", "d", "k", "n", "o", "p", "t", "x">>
CharCode(c) == CHOOSE i \in 1..Len(CharOrder) : CharOrder[i] = c

\* a < b for two Python strings
RECURSIVE StrLess(_, _)
StrLess(a, b) ==
    IF b = <<>> THEN FALSE
    ELSE IF a = <<>> THEN TRUE
    ELSE IF Head(a) = Head(b) THEN StrLess(Tail(a), Tail(b))
    ELSE CharCode(Head(a)) < CharCode(Head(b))

\* order.get('delivery_branch_code', '').strip()
DeliveryCode(book) == Strip(book.delivery_branch_code)

\* PackingListGenerator.group_books_by_delivery_branch: the keys of grouped
\* (books of a blank code are passed over) and the books of one key, in list order
GroupKeys(books) == {DeliveryCode(books[i]) : i \in 1..Len(books)} \ {<<>>}

IsOfBranch(book, code) == DeliveryCode(book) = code

RECURSIVE GroupOfLastOnly(_, _, _)
GroupOfLastOnly(books, code, i) ==
    IF i > Len(books) THEN <<>>
    ELSE IF IsOfBranch(books[i], code) /\ GroupOfLastOnly(books, code, i + 1) = <<>>
         THEN <<books[i]>>
         ELSE GroupOfLastOnly(books, code, i + 1)
RECURSIVE GroupOf(_, _, _)
GroupOf(books, code, i) ==
    IF i > Len(books) THEN <<>>
    ELSE IF IsOfBranch(books[i], code) THEN <<books[i]>> \o GroupOf(books, code, i + 1)
    ELSE GroupOf(books, code, i + 1)

\* sorted(grouped_books.keys())
RECURSIVE SortedKeys(_)
SortedKeys(keys) ==
    IF keys = {} THEN <<>>
    ELSE LET least == CHOOSE k \in keys : \A o \in keys : ~StrLess(o, k)
         IN  <<least>> \o SortedKeys(keys \ {least})

\* One entry of a packing list's 'books'
BookEntry(book) ==
    [ book_style     |-> book.book_style,
      account_name   |-> Strip(book.account_name),
      account_number |-> Strip(book.account_number),
      start_serial   |-> Strip(book.serial_number),
      branch_code    |-> Strip(book.delivery_branch_code),
      currency       |-> book.currency,
      leaves         |-> book.leaves ]

\* The packing list of one branch code
PackingListLastName(books, code, order_number) ==
    LET group == GroupOf(books, code, 1) IN
    [ bank_name            |-> "KCB Bank Ltd",
      order_number         |-> order_number,
      delivery_branch_code |-> code,
      delivery_branch_name |-> Strip(group[Len(group)].delivery_branch_name),
      total_books          |-> Len(group),
      books                |-> [i \in 1..Len(group) |-> BookEntry(group[i])] ]
PackingList(books, code, order_number) ==
    LET group == GroupOf(books, code, 1) IN
    [ bank_name            |-> "KCB Bank Ltd",
      order_number         |-> order_number,
      delivery_branch_code |-> code,
      delivery_branch_name |-> Strip(group[1].delivery_branch_name),
      total_books          |-> Len(group),
      books                |-> [i \in 1..Len(group) |-> BookEntry(group[i])] ]

\* PackingListGenerator.generate_packing_lists
generate_packing_lists(books, order_number) ==
    LET keys == SortedKeys(GroupKeys(books)) IN
    [i \in 1..Len(keys) |-> PackingList(books, keys[i], order_number)]

\* sorted(books, key=lambda x: x['book_style'], reverse=True): a stable sort, so
\* entries of equal style keep their order
RemoveAt(s, i) == SubSeq(s, 1, i - 1) \o SubSeq(s, i + 1, Len(s))

\* The index of the entry the sorted list starts with
FirstRowLastOfTies(entries) ==
    CHOOSE i \in 1..Len(entries) :
        /\ \A j \in 1..Len(entries) : ~StrLess(entries[i].book_style, entries[j].book_style)
        /\ \A j \in (i + 1)..Len(entries) : entries[j].book_style # entries[i].book_style
FirstRow(entries) ==
    CHOOSE i \in 1..Len(entries) :
        /\ \A j \in 1..Len(entries) : ~StrLess(entries[i].book_style, entries[j].book_style)
        /\ \A j \in 1..(i - 1) : entries[j].book_style # entries[i].book_style

RECURSIVE SortedBooks(_)
SortedBooks(entries) ==
    IF entries = <<>> THEN <<>>
    ELSE LET i == FirstRow(entries)
         IN  <<entries[i]>> \o SortedBooks(RemoveAt(entries, i))

\* PackingListPDFMapper._create_books_table, for each packing list of the PDF
BooksTables(lists) == [i \in 1..Len(lists) |-> SortedBooks(lists[i].books)]

-----------------------------------------------------------------------------
(* Input files: fixed-width lines built field by field *)

Take(s, n) == SubSeq(s, 1, Min(n, Len(s)))

\* A full-width line; the fields not passed are the same in every line
Line(flag, account, style, books, serial, dcode) ==
    <<"0", "1">> \o flag \o <<"1">>                       \* bank id, order flag, priority
        \o <<"0", "1", "1", "0", "0">> \o account \o <<"7">>   \* sort code, account, check digit
        \o <<"1", "2">> \o <<"3", "4">>                   \* voucher digits
        \o style \o books \o serial
        \o Rep("0", 6)                                    \* credits start serial
        \o Ljust(<<"J", "A", "N", "E", " ", "D", "O", "E">>, 36)
        \o Ljust(<<"K", "C", "B", " ", "M", "O", "I">>, 30)
        \o Ljust(<<"B", "O", "X", " ", "1">>, 30)
        \o <<"Y">>
        \o Rep(" ", 30)
        \o dcode
        \o Ljust(<<"L", "A", "V", "I", "N", "G", "T", "O", "N">>, 36)

Account(c) == Rep("0", 9) \o <<c>>

HeaderLine == Line(<<"0">>, Account("0"), <<"0","0">>, Rep(" ", 4), Rep(" ", 6), Rep(" ", 5))
\* two books of style 01 from serial 000001
LineA == Line(<<"1">>, Account("1"), <<"0","1">>, <<"0","0","0","2">>, <<"0","0","0","0","0","1">>, <<"0","1","3","2","0">>)
\* three books of style 02 from serial 999900
LineB == Line(<<"1">>, Account("2"), <<"0","2">>, <<" "," "," ","3">>, <<"9","9","9","9","0","0">>, <<"0","0","2","0","0">>)
\* zero books of the unknown style 99, a serial that is not zero-padded
LineC == Line(<<"1">>, Account("3"), <<"9","9">>, <<"0","0","0","0">>, <<" "," ","1","2"," "," ">>, <<"0","1","3","2","0">>)
\* a number-of-books field that is not a number
LineD == Line(<<"1">>, Account("4"), <<"0","1">>, <<"a","b"," "," ">>, <<"0","0","0","1","0","0">>, <<"0","0","2","0","0">>)
\* a blank cheque start serial
LineE == Line(<<"1">>, Account("5"), <<"0","1">>, <<"0","0","0","1">>, Rep(" ", 6), <<"0","0","2","0","0">>)

Lines == {HeaderLine, <<>>, LineA, LineB, LineC, LineD, LineE}

Files == UNION {[1..n -> Lines] : n \in 0..MaxLines}

\* Single lines over wider field contents, cut at several lengths
WideBooks ==
    { Rep(" ", 4), <<"0","0","0","1">>, <<"0","0","0","2">>, <<" "," "," ","3">>, <<"4"," "," "," ">>,
      <<"0","0","1","2">>, <<"0","0","0","0">>, <<" "," ","-","1">>, <<"-","0","0","2">>,
      <<"+","3"," "," ">>, <<"1","_","0"," ">>, <<"1"," ","2"," ">>, <<"a","b"," "," ">>,
      <<"2","x"," "," ">>, <<"-"," "," "," ">>, <<"_","1"," "," ">> }

WideSerials ==
    { <<"0","0","0","0","0","1">>, <<"0","0","0","0","0","0">>, <<"9","9","9","9","9","9">>,
      <<"9","9","9","9","0","0">>, <<"1","2","3","4","5","6">>, <<" "," ","1","2"," "," ">>,
      <<"7"," "," "," "," "," ">>, <<"-","0","0","1","0","0">>, <<"+","5"," "," "," "," ">>,
      Rep(" ", 6), <<"1","2","a","4","5","6">>, <<"1"," ","2"," "," "," ">> }

WideStyles == { <<"0","1">>, <<"0","2">>, <<"7","4">>, <<"9","9">>, <<" "," ">> }

WideLens == {0, 1, 2, 3, 25, 27, 28, 30, 33, 36, 100, 172, 210}

WideOrderLines ==
    { Take(Line(<<"1">>, Account("7"), st, nb, se, <<"0","1","3","2","0">>) \o <<"X", "Y">>, n) :
        st \in WideStyles, nb \in WideBooks, se \in WideSerials, n \in WideLens \cup {212} }

WideOtherLines ==
    { Take(Line(<<fl>>, Account("8"), <<"0","1">>, <<"0","0","0","2">>, <<"0","0","0","0","0","1">>, <<"0","1","3","2","0">>), n) :
        fl \in {"0", "2", "4", "9", " ", "x"}, n \in WideLens }
    \cup { Rep(" ", n) : n \in WideLens } \cup { Rep("\t", 4) }

\* Every content of the 4-column number-of-books field over a five-character alphabet
BooksAlphabet == {"0", "1", " ", "-", "x"}
AllBooksLines ==
    { Line(<<"1">>, Account("9"), <<"0","1">>, <<a, b, c, d>>, Rep(" ", 6), <<"0","1","3","2","0">>) :
        a \in BooksAlphabet, b \in BooksAlphabet, c \in BooksAlphabet, d \in BooksAlphabet }

WideLines == WideOrderLines \cup WideOtherLines \cup AllBooksLines

-----------------------------------------------------------------------------
(* File paths and clock readings *)

\* The file paths of the runs over several files
PathKcb618 == <<"K", "C", "B", "-", "6", "1", "8", ".", "d", "a", "t">>
PathKcb7 == <<"u", "p", "/", "k", "c", "b", "-", "7", ".", "d", "a", "t">>
Paths == {PathKcb618, PathKcb7}

\* A wider set of file paths
WidePaths ==
    { <<"K", "C", "B", "-", "6", "1", "8", ".", "d", "a", "t">>,
      <<"R", "e", "p", "o", "r", "t", "_", "0", "4", "2", ".", "d", "a", "t">>,
      <<"n", "o", "o", "p", ".", "d", "a", "t">>,
      <<"k", "c", "b", "-", "7", ".", "d", "a", "t">>,
      <<"K", "C", "B", "-", "1", "2", "3", "4", "5", "6", "7", ".", "d", "a", "t">>,
      <<"K", "C", "B", "-", "0", "0", "0", "6", "1", "8", ".", "d", "a", "t">>,
      <<"x", "1", "2", ".", "d", "a", "t">>,
      <<"a", "1", "2", "3", "4", "5", "6", "7", "8", "9", "0", ".", "d", "a", "t">>,
      <<"K", "C", "B", "-", ".", "d", "a", "t">>,
      <<"i", "n", "/", "K", "C", "B", "-", "9", "/", "b", "7", "7", ".", "d", "a", "t">>,
      <<"1", "2", "K", "C", "B", "-", "3", "4", ".", "d", "a", "t">>,
      <<"u", "p", "/", "K", "c", "b", "-", "0", "0", "0", "1", "2", ".", "d", "a", "t">>,
      <<"K", "C", "B", "_", "6", "1", "8", ".", "d", "a", "t">>,
      <<"a", "1", "2", "b", "3", "4", "5", "6", ".", "d", "a", "t">>,
      <<"K", "C", "B", "-", "1", "2", "3", "4", "5", "6", "7", "8", ".", "D", "A", "T">>,
      <<"d", "a", "t", "a", "/", "2", "0", "2", "5", "/", "r", "u", "n", ".", "d", "a", "t">> }

\* datetime.now().strftime("%m%d%H") at the time of a call
Clock == { <<"1", "1", "0", "1", "0", "7">>, <<"1", "2", "3", "1", "2", "3">> }

\* Files of several lines with different delivery branches and book styles
MaxGroupLines == 4

BranchLavington == <<"0","1","3","2","0">>
BranchMoi == <<"0","0","2","0","0">>

\* the same branch under another name
LineF ==
    Take(Line(<<"1">>, Account("6"), <<"7","4">>, <<"0","0","0","2">>, <<"0","0","0","5","0","0">>, BranchLavington), 174)
        \o Ljust(<<"K", "C", "B", " ", "L", "A", "V">>, 36)
\* a blank delivery branch code
LineG == Line(<<"1">>, Account("7"), <<"0","2">>, <<"0","0","0","1">>, <<"0","0","0","7","0","0">>, Rep(" ", 5))
\* a branch code that sorts after "01320" as a string and before it as a number
LineH == Line(<<"1">>, Account("8"), <<"0","1">>, Rep(" ", 4), <<"0","0","0","9","0","0">>, <<"9"," "," "," "," ">>)
TrailerLine == Line(<<"4">>, Account("0"), <<"0","0">>, Rep(" ", 4), Rep(" ", 6), Rep(" ", 5))

GroupLines == {LineA, LineB, LineC, LineF, LineG, LineH}

\* header, one order of two books of style 01 from serial 000001, trailer
ScenarioFile == <<HeaderLine, LineA, TrailerLine>>

GroupFiles == UNION {[1..n -> GroupLines] : n \in 1..MaxGroupLines} \cup {ScenarioFile}

-----------------------------------------------------------------------------
(* The state machine *)

\* A job no call has touched: none of the fields the service sets is set
NoJob ==
    [ status        |-> "",
      error_message |-> FALSE,
      processed_at  |-> FALSE,
      pdf_file      |-> FALSE,
      metadata      |-> FALSE ]

Init ==
    /\ orders = <<>>
    /\ file = <<>>
    /\ before = 0
    /\ outcome = "none"
    /\ expanded = <<>>
    /\ fed = 0
    /\ path = <<>>
    /\ filename = <<>>
    /\ extracted_order_number = <<>>
    /\ source = <<>>
    /\ packing_lists = <<>>
    /\ rendered = <<>>
    /\ batch = <<>>
    /\ results = <<>>
    /\ generated_pdfs = <<>>
    /\ job = NoJob
    /\ job_statuses = <<>>
    /\ job_saved = <<>>
    /\ call = "none"

\* DATFileParser.__init__, within PackingListOrchestrator.__init__: a new
\* orchestrator with a new parser
NewParser ==
    /\ orders' = <<>>
    /\ file' = <<>>
    /\ before' = 0
    /\ outcome' = "none"
    /\ expanded' = <<>>
    /\ fed' = 0
    /\ path' = <<>>
    /\ filename' = <<>>
    /\ extracted_order_number' = <<>>
    /\ source' = <<>>
    /\ packing_lists' = <<>>
    /\ rendered' = <<>>
    /\ batch' = <<>>
    /\ results' = <<>>
    /\ generated_pdfs' = <<>>
    /\ job' = NoJob
    /\ job_statuses' = <<>>
    /\ job_saved' = <<>>
    /\ call' = "none"

\* The lines of f that add a record, in order
RECURSIVE SourceLines(_, _)
SourceLines(lines, i) ==
    IF i > Len(lines) THEN <<>>
    ELSE IF IsOrderLine(lines[i]) /\ parse_order_record(lines[i]) # None
         THEN <<lines[i]>> \o SourceLines(lines, i + 1)
         ELSE SourceLines(lines, i + 1)

\* DATFileParser.parse_file on a file of lines f: the orders of f are appended to
\* self.orders, then all of self.orders is expanded; a ValueError of the expansion
\* leaves parse_file, the appended orders staying in the parser
parse_file(f) ==
    /\ LET all == orders \o ReadLines(f, 1) IN
        /\ orders' = all
        /\ IF ExpandRaises(all)
           THEN outcome' = "raised" /\ expanded' = <<>>
           ELSE outcome' = "ok" /\ expanded' = expand_orders_with_books(all)
    /\ file' = f
    /\ before' = Len(orders)
    /\ fed' = fed + Max(Len(f), 1)
    /\ source' = source \o SourceLines(f, 1)

\* The first statement of parse_file: the order number of the file name
parse_file_name(file_path, now) ==
    /\ path' = file_path
    /\ filename' = Basename(file_path)
    /\ extracted_order_number' = extract_order_number_from_filename(file_path, now)

\* The PDF path process_dat_file returns: PackingList_<stem>_<date>.pdf
PdfPath(file_path) == <<"P", "a", "c", "k", "i", "n", "g", "L", "i", "s", "t", "_">> \o Stem(file_path)

\* What the loop of process_multiple_files does with the result of one file
RecordFailureAsPath(paths, file_path, ok) == Append(paths, PdfPath(file_path))
RecordResult(paths, file_path, ok) == IF ok THEN Append(paths, PdfPath(file_path)) ELSE paths

\* PackingListOrchestrator.process_dat_file on file_path with lines f, as one
\* iteration of process_multiple_files: parse, generate the packing lists, build
\* the PDF (pdf_fails: building it raises); an exception of any step is caught by
\* the loop, which goes on to the next file
process_dat_file(file_path, f, now, pdf_fails) ==
    /\ parse_file(f)
    /\ parse_file_name(file_path, now)
    /\ packing_lists' =
          IF outcome' = "ok"
          THEN generate_packing_lists(expanded', <<"K", "C", "B", "-">> \o extracted_order_number')
          ELSE <<>>
    /\ rendered' = IF outcome' = "ok" /\ ~pdf_fails THEN BooksTables(packing_lists') ELSE <<>>
    /\ batch' = Append(batch, file_path)
    /\ results' = Append(results, IF outcome' = "ok" /\ ~pdf_fails THEN "ok" ELSE "failed")
    /\ generated_pdfs' = RecordResult(generated_pdfs, file_path, outcome' = "ok" /\ ~pdf_fails)
    /\ UNCHANGED <<job, job_statuses, job_saved, call>>

\* The lines read so far and those of f stay within MaxLines (an empty file counts
\* as one line)
WithinBudget(f) == fed + Max(Len(f), 1) <= MaxLines

\* A file of the curated lines, named KCB-618.dat, whose PDF is built without error
ParseSomeFile ==
    \E f \in Files, now \in Clock :
        WithinBudget(f) /\ process_dat_file(PathKcb618, f, now, FALSE)

Next == ParseSomeFile \/ NewParser

Spec == Init /\ [][Next]_vars

\* The files of a batch: one order, two orders, an order with a blank serial,
\* no order
BatchFiles == {<<LineA>>, <<HeaderLine, LineB>>, <<LineE>>, <<HeaderLine>>}

\* One iteration of the loop of process_multiple_files
ProcessNextFile ==
    \E f \in BatchFiles, file_path \in Paths, now \in Clock, pdf_fails \in BOOLEAN :
        WithinBudget(f) /\ process_dat_file(file_path, f, now, pdf_fails)

NextBatch == ProcessNextFile \/ NewParser

SpecBatch == Init /\ [][NextBatch]_vars

\* Runs of one orchestrator over at most MaxFiles files, the file of header, order
\* and trailer among them
MaxFiles == 2

ProcessFileOfRun ==
    \E f \in BatchFiles \cup {ScenarioFile}, file_path \in Paths, now \in Clock :
        Len(batch) < MaxFiles /\ process_dat_file(file_path, f, now, FALSE)

NextRun == ProcessFileOfRun \/ NewParser

SpecRun == Init /\ [][NextRun]_vars

-----------------------------------------------------------------------------
(* PackingListService.process_dat_file *)

\* The steps of the try block, each ending with a call that may raise:
\*   1 status = 'processing', job.save()        5 generate_packing_list_pdf
\*   2 parse_file (here: open() raises)         6 open(pdf_path), job.pdf_file.save
\*   3 get_file_metadata, job.save()            7 os.remove(pdf_path)
\*   4 generate_packing_lists, job.save()       8 status = 'completed', job.save()
\*                                              9 the prints before return
ServiceSteps == 9

\* The step that raises (0: none): raise_at, or step 2 when the expansion of the
\* parser's orders raises ValueError
FailingStep(f, raise_at) ==
    IF raise_at \in {1, 2} THEN raise_at
    ELSE IF ExpandRaises(orders \o ReadLines(f, 1)) THEN 2
    ELSE raise_at

\* Step n is begun, and step n is completed, when step fail raises
Begun(n, fail) == fail = 0 \/ fail >= n
Done(n, fail) == fail = 0 \/ fail > n

Only(cond, x) == IF cond THEN <<x>> ELSE <<>>

\* The values assigned to job.status: lines 41, 101 and, in the except clause, 113
StatusesAssigned(fail) ==
    <<"processing">> \o Only(Begun(8, fail), "completed") \o Only(fail # 0, "failed")

\* The values written by job.save(): lines 42, 62, 76, 103 and, in the except
\* clause, 116 (handler_fails: that save raises as well)
StatusesSaved(fail, handler_fails) ==
    Only(Done(1, fail), "processing") \o Only(Done(3, fail), "processing")
        \o Only(Done(4, fail), "processing") \o Only(Done(8, fail), "completed")
        \o Only(fail # 0 /\ ~handler_fails, "failed")

\* PackingListService.process_dat_file on a new job whose dat_file is file_path
\* with lines f
service_process_dat_file(file_path, f, now, raise_at, handler_fails) ==
    LET fail == FailingStep(f, raise_at) IN
    /\ IF fail = 1
       THEN UNCHANGED <<orders, file, before, outcome, expanded, fed, source,
                        path, filename, extracted_order_number>>
       ELSE IF raise_at = 2
       THEN /\ parse_file_name(file_path, now)
            /\ outcome' = "raised" /\ expanded' = <<>>
            /\ file' = <<>> /\ before' = Len(orders)
            /\ UNCHANGED <<orders, fed, source>>
       ELSE parse_file(f) /\ parse_file_name(file_path, now)
    /\ packing_lists' =
          IF Begun(4, fail)
          THEN generate_packing_lists(expanded', <<"K", "C", "B", "-">> \o extracted_order_number')
          ELSE <<>>
    /\ rendered' = IF Done(5, fail) THEN BooksTables(packing_lists') ELSE <<>>
    /\ job_statuses' = StatusesAssigned(fail)
    /\ job_saved' = StatusesSaved(fail, handler_fails)
    /\ job' = [ status        |-> job_statuses'[Len(job_statuses')],
                error_message |-> fail # 0,
                processed_at  |-> Begun(8, fail) \/ fail # 0,
                pdf_file      |-> Done(6, fail),
                metadata      |-> Done(2, fail) ]
    /\ call' = IF fail = 0 THEN "returned" ELSE "raised"
    /\ UNCHANGED <<batch, results, generated_pdfs>>

\* One service processing the jobs of several uploads
\* The uploads: one order of two books, one of three, one with a blank serial
ServiceFiles == {<<LineA>>, <<LineB>>, <<LineE>>}

ProcessJob ==
    \E f \in ServiceFiles, raise_at \in 0..ServiceSteps, handler_fails \in BOOLEAN :
        /\ WithinBudget(f)
        /\ service_process_dat_file(PathKcb618, f, CHOOSE now \in Clock : TRUE, raise_at, handler_fails)

NextService == ProcessJob \/ NewParser

SpecService == Init /\ [][NextService]_vars

\* One file, with its path, handed to a new parser
InitGiven(files, paths) ==
    /\ orders = <<>>
    /\ file \in files
    /\ before = 0
    /\ outcome = "none"
    /\ expanded = <<>>
    /\ fed = 0
    /\ path \in paths
    /\ filename = <<>>
    /\ extracted_order_number = <<>>
    /\ source = <<>>
    /\ packing_lists = <<>>
    /\ rendered = <<>>
    /\ batch = <<>>
    /\ results = <<>>
    /\ generated_pdfs = <<>>
    /\ job = NoJob
    /\ job_statuses = <<>>
    /\ job_saved = <<>>
    /\ call = "none"

\* One line, drawn from the wide set, parsed by a new parser; or one line under
\* each of the wide set of paths
InitWide ==
    \/ InitGiven({<<l>> : l \in WideLines}, {PathKcb618})
    \/ InitGiven({<<LineA>>}, WidePaths)

ParseGivenFile ==
    /\ outcome = "none"
    /\ \E now \in Clock : process_dat_file(path, file, now, FALSE)

NextWide == ParseGivenFile

SpecWide == InitWide /\ [][NextWide]_vars

\* One file of several lines, processed by a new orchestrator
InitGroup == InitGiven(GroupFiles, {PathKcb618})

SpecGroup == InitGroup /\ [][NextWide]_vars

-----------------------------------------------------------------------------
(* Properties *)

\* The orders the last parse_file call appended
NewOrders == SubSeq(orders, before + 1, Len(orders))

\* The character at 0-indexed column 2 of the line is '1'
HasOrderFlag(line) == Len(line) >= 3 /\ line[3] = "1"

\* The string is one or more decimal digits
IsDigits(s) == s # <<>> /\ \A i \in 1..Len(s) : s[i] \in Digit

\* Number of books an order is to expand to
BookCount(order) == Max(order.number_of_books, 1)

\* C1: a single decoded order with a numeric cheque start serial expands, without
\* an exception, to exactly max(number_of_books, 1) books, also for a count of 0
\* or below.
C1_ExpandCount ==
    /\ (outcome = "ok" /\ Len(orders) = 1)
          => Len(expanded) = BookCount(orders[1])
    /\ (outcome # "none" /\ Len(orders) = 1 /\ IsDigits(orders[1].cheque_start_serial))
          => outcome = "ok"

C1_Witness ==
    /\ outcome = "ok"
    /\ Len(orders) = 1
    /\ orders[1].number_of_books < 0
    /\ IsDigits(orders[1].cheque_start_serial)
    /\ Len(expanded) = 1

\* The serial increment of each style as the table SERIAL_INCREMENTS lists it
C2_Table(style) ==
    CASE style \in {<<"0","1">>, <<"2","5">>, <<"3","1">>, <<"3","2">>, <<"4","0">>} -> 50
      [] style \in {<<"0","2">>, <<"4","5">>, <<"5","1">>, <<"5","2">>, <<"6","9">>,
                    <<"7","1">>, <<"7","2">>, <<"7","3">>, <<"7","4">>} -> 100
      [] OTHER -> 50

\* C2: in the books of one order, book #1 carries the order's cheque start serial
\* unchanged, and the integer value of each later serial is the one before plus
\* the style's increment (50 for a style that is not in the table).
C2_ArithmeticSerials ==
    (outcome = "ok" /\ Len(orders) = 1) =>
        /\ expanded[1].serial_number = orders[1].cheque_start_serial
        /\ \A k \in 1..(Len(expanded) - 1) :
              /\ IntOK(expanded[k + 1].serial_number)
              /\ PyInt(expanded[k + 1].serial_number)
                    = PyInt(expanded[k].serial_number) + C2_Table(orders[1].book_style)

C2_Witness ==
    /\ outcome = "ok"
    /\ Len(orders) = 1
    /\ orders[1].book_style \notin KnownStyles
    /\ Len(expanded) >= 3
    /\ PyInt(expanded[3].serial_number) = PyInt(expanded[1].serial_number) + 100

\* C3: every book of the expanded list has a serial number of exactly 6 decimal
\* digits.
C3_SixDigitSerials ==
    outcome = "ok" =>
        \A k \in 1..Len(expanded) :
            Len(expanded[k].serial_number) = 6 /\ IsDigits(expanded[k].serial_number)

\* C4: when no serial fails to parse, the metadata total_books equals the number
\* of books of the expanded list.
C4_TotalBooksIsExpandedLength == outcome = "ok" => total_books = Len(expanded)

\* The cheque start serial of the order parses as an integer
C5_SerialParses(order) == IntOK(order.cheque_start_serial)

\* C5: an order whose cheque start serial does not parse is skipped: parse_file
\* returns, and the expanded list holds the books of every other order and none
\* of that order.
C5_BadSerialSkipped ==
    outcome # "none" =>
        /\ outcome = "ok"
        /\ expanded = expand_orders_with_books(SelectSeq(orders, C5_SerialParses))

\* The number-of-books columns (26-29) of the line hold a character that no
\* integer literal has, or a blank between two other characters
C6_NonNumericBooks(line) ==
    \/ \E c \in 27..30 :
          c <= Len(line) /\ line[c] \notin (Digit \cup Whitespace \cup {"+", "-", "_"})
    \/ \E a, b, c \in 27..30 :
          /\ a < b /\ b < c /\ c <= Len(line)
          /\ line[a] \notin Whitespace /\ line[b] \in Whitespace /\ line[c] \notin Whitespace

\* The lines of the file that are order lines and that the decoder accepts
C6_Accepted == {i \in 1..Len(file) : HasOrderFlag(file[i]) /\ parse_order_record(file[i]) # None}

\* The j-th accepted line, in file order
C6_Nth(j) == CHOOSE i \in C6_Accepted : Cardinality({m \in C6_Accepted : m < i}) = j - 1

\* C6: a line whose number-of-books field is not numeric is decoded to None and
\* adds no order; every other order line of the file, before and after it, is
\* decoded and appended, in file order.
C6_BadLineDroppedOthersKept ==
    outcome # "none" =>
        /\ \A i \in 1..Len(file) :
              C6_NonNumericBooks(file[i]) => parse_order_record(file[i]) = None
        /\ Len(NewOrders) = Cardinality(C6_Accepted)
        /\ \A j \in 1..Len(NewOrders) : <<NewOrders[j]>> = parse_order_record(file[C6_Nth(j)])

C6_Witness ==
    /\ outcome # "none"
    /\ Len(file) = 3
    /\ C6_NonNumericBooks(file[2]) /\ HasOrderFlag(file[2])
    /\ Len(NewOrders) = 2
    /\ <<NewOrders[1]>> = parse_order_record(file[1])
    /\ <<NewOrders[2]>> = parse_order_record(file[3])
    /\ NewOrders[1] # NewOrders[2]

\* C7: a line whose character at column 2 is not '1' (header, trailer, blank,
\* shorter than 3 characters, any other discriminator) adds no order record and
\* raises nothing; a line adds at most one record.
C7_OnlyFlagOneIsOrder ==
    outcome # "none" =>
        /\ Len(orders) <= 1
        /\ ~HasOrderFlag(file[1]) => (orders = <<>> /\ outcome = "ok" /\ expanded = <<>>)

C7_Witness ==
    /\ outcome = "ok"
    /\ Len(file[1]) = LineWidth
    /\ file[1][3] = "4"
    /\ orders = <<>>

\* 0-indexed first column of each string field of the OrderRecord
C8_FieldStart ==
    [ bank_id |-> 0, order_id |-> 2, priority |-> 3, sort_code |-> 4, account_number |-> 9,
      check_digit |-> 19, cheque_voucher_digits |-> 20, credits_voucher_digits |-> 22,
      book_style |-> 24, cheque_start_serial |-> 30, credits_start_serial |-> 36,
      personalization |-> 42, branch_title |-> 78, branch_address |-> 108,
      signature_required |-> 138, beneficiary_name |-> 139, delivery_branch_code |-> 169,
      delivery_branch_name |-> 174 ]

\* C8: an order line shorter than 210 characters is decoded as the same line
\* right-padded with spaces to 210: it is not rejected for its length, a field
\* whose columns lie past the end of the line is empty, and a number-of-books
\* field past the end is 1.
C8_ShortLineAsPadded ==
    (outcome # "none" /\ HasOrderFlag(file[1]) /\ Len(file[1]) < LineWidth) =>
        /\ orders = parse_order_record(file[1] \o Rep(" ", LineWidth - Len(file[1])))
        /\ Len(file[1]) <= 26 => (Len(orders) = 1 /\ orders[1].number_of_books = 1)
        /\ orders # <<>> =>
              \A fld \in DOMAIN C8_FieldStart :
                  Len(file[1]) <= C8_FieldStart[fld] => orders[1][fld] = <<>>

C8_Witness ==
    /\ outcome # "none"
    /\ Len(file[1]) = 33
    /\ Len(orders) = 1
    /\ orders[1].number_of_books = 12
    /\ orders[1].cheque_start_serial = <<"9", "9", "9">>
    /\ orders[1].delivery_branch_code = <<>>

\* C9: every decoded OrderRecord has number_of_books >= 1.
C9_BooksAtLeastOne == \A i \in 1..Len(orders) : orders[i].number_of_books >= 1

\* Index in the expanded list of the book before the first book of order i
RECURSIVE C10_Offset(_)
C10_Offset(i) == IF i = 1 THEN 0 ELSE C10_Offset(i - 1) + BookCount(orders[i - 1])

\* C10: the books of the orders lie in the expanded list in the order of the
\* orders, those of one order contiguous and in increasing book index: the k-th
\* book of order i is at position (books of the orders before i) + k.
C10_FileOrderPreserved ==
    outcome = "ok" =>
        /\ Len(expanded) = C10_Offset(Len(orders) + 1)
        /\ \A i \in 1..Len(orders) : \A k \in 1..BookCount(orders[i]) :
              LET book == expanded[C10_Offset(i) + k] IN
              /\ book.account_number = orders[i].account_number
              /\ book.book_style = orders[i].book_style
              /\ PyInt(book.serial_number)
                    = PyInt(orders[i].cheque_start_serial)
                          + (k - 1) * C2_Table(orders[i].book_style)

C10_Witness ==
    /\ outcome = "ok"
    /\ Len(orders) = 2
    /\ orders[1].account_number # orders[2].account_number
    /\ orders[1].number_of_books = 3
    /\ orders[2].number_of_books = 2
    /\ Len(expanded) = 5


\* The entry of a style in BOOK_STYLES, and the defaults of a style that is not a key
C11_Info(style) ==
    CASE style = <<"0","1">> -> [type |-> "Personal KES", currency |-> "KES", leaves |-> 50]
      [] style = <<"0","2">> -> [type |-> "Corporate KES", currency |-> "KES", leaves |-> 100]
      [] style = <<"2","5">> -> [type |-> "South African Rand Small", currency |-> "ZAR", leaves |-> 50]
      [] style = <<"4","5">> -> [type |-> "South African Rand Large", currency |-> "ZAR", leaves |-> 100]
      [] style = <<"3","1">> -> [type |-> "Sterling Pound Small", currency |-> "GBP", leaves |-> 50]
      [] style = <<"5","1">> -> [type |-> "Sterling Pound Large", currency |-> "GBP", leaves |-> 100]
      [] style = <<"3","2">> -> [type |-> "USA Dollar Small", currency |-> "USD", leaves |-> 50]
      [] style = <<"5","2">> -> [type |-> "USA Dollar Large", currency |-> "USD", leaves |-> 100]
      [] style = <<"4","0">> -> [type |-> "EURO Small", currency |-> "EUR", leaves |-> 50]
      [] style = <<"6","9">> -> [type |-> "EURO Large", currency |-> "EUR", leaves |-> 100]
      [] style = <<"7","1">> -> [type |-> "KES Banker's Cheques", currency |-> "KES", leaves |-> 100]
      [] style = <<"7","2">> -> [type |-> "USD Banker's Cheques", currency |-> "USD", leaves |-> 100]
      [] style = <<"7","3">> -> [type |-> "GBP Banker's Cheques", currency |-> "GBP", leaves |-> 100]
      [] style = <<"7","4">> -> [type |-> "EUR Banker's Cheques", currency |-> "EUR", leaves |-> 100]
      [] OTHER -> [type |-> "Unknown", currency |-> "KES", leaves |-> 50]

\* Every book of the expanded list carries the description, currency and leaves
\* of the table entry of its style
C11_BooksCarryInfo ==
    \A k \in 1..Len(expanded) :
        /\ expanded[k].book_type_description = C11_Info(expanded[k].book_style).type
        /\ expanded[k].currency = C11_Info(expanded[k].book_style).currency
        /\ expanded[k].leaves = C11_Info(expanded[k].book_style).leaves

\* C11: an order whose style is not a key of BOOK_STYLES raises no error, each of
\* its books has description "Unknown", currency "KES" and 50 leaves, and its
\* serials go up by 50; the books of an order of a known style carry that style's
\* description, currency and leaves.
C11_StyleDefaults ==
    (outcome # "none" /\ Len(orders) = 1) =>
        /\ orders[1].book_style \notin KnownStyles =>
              /\ outcome = "ok"
              /\ Len(expanded) >= 1
              /\ \A k \in 1..(Len(expanded) - 1) :
                    PyInt(expanded[k + 1].serial_number) = PyInt(expanded[k].serial_number) + 50
        /\ outcome = "ok" =>
              /\ \A k \in 1..Len(expanded) : expanded[k].book_style = orders[1].book_style
              /\ C11_BooksCarryInfo

\* What a new parser holds after parse_file on the file alone
C12_Alone == ReadLines(file, 1)

\* C12: no state is shared across files: after one parser has processed earlier
\* files (successfully or not) and then this file, the orders, the expanded
\* books and the metadata totals are those of a new parser that processed this
\* file alone.
C12_NoSharedState ==
    outcome # "none" =>
        /\ orders = C12_Alone
        /\ outcome = (IF ExpandRaises(C12_Alone) THEN "raised" ELSE "ok")
        /\ outcome = "ok" => expanded = expand_orders_with_books(C12_Alone)
        /\ total_orders = Len(C12_Alone)
        /\ total_books = SumBooks(C12_Alone, 1)

\* The positions of the batch whose file was processed to the end
C13_Completed == {i \in 1..Len(batch) : results[i] = "ok"}

\* The j-th completed position, in input order
C13_Nth(j) == CHOOSE i \in C13_Completed : Cardinality({m \in C13_Completed : m < i}) = j - 1

\* C13: the files of a batch are processed one after another in the given order,
\* a file whose processing raises does not stop the files after it, and the
\* returned list holds exactly the PDF paths of the files that completed, one
\* each, in input order, and nothing of a failed file.
C13_BatchResult ==
    /\ Len(results) = Len(batch)
    /\ Len(generated_pdfs) = Cardinality(C13_Completed)
    /\ \A j \in 1..Len(generated_pdfs) : generated_pdfs[j] = PdfPath(batch[C13_Nth(j)])

\* A file that fails, then a file under another path that completes, then a file
\* whose expansion raises
C13_Witness ==
    /\ results = <<"failed", "ok", "failed">>
    /\ outcome = "raised"
    /\ batch[1] # batch[2]
    /\ generated_pdfs = <<PdfPath(batch[2])>>

\* C14: parse_file completes without raising whatever the lines of the file are,
\* and the expanded list is empty only when the file holds no order line.
C14_NeverFatal ==
    outcome # "none" =>
        /\ outcome = "ok"
        /\ expanded = <<>> => \A i \in 1..Len(file) : ~HasOrderFlag(file[i])

\* The delivery branch codes of the expanded books
C15_Codes == {Strip(expanded[k].delivery_branch_code) : k \in 1..Len(expanded)}

\* The entries of the expanded books of one branch code and one style, in the
\* order of the expanded list
C15_EntriesOf(code, style) ==
    LET Is(book) == Strip(book.delivery_branch_code) = code /\ book.book_style = style
        of == SelectSeq(expanded, Is)
    IN  [k \in 1..Len(of) |-> BookEntry(of[k])]

\* The rows of one style of a books table
C15_RowsOf(table, style) ==
    LET Is(row) == row.book_style = style IN SelectSeq(table, Is)

\* The packing lists are one per code of the set, ascending by code
C15_ListsOf(codes) ==
    /\ Len(packing_lists) = Cardinality(codes)
    /\ {packing_lists[i].delivery_branch_code : i \in 1..Len(packing_lists)} = codes
    /\ \A i, j \in 1..Len(packing_lists) :
          i < j => StrLess(packing_lists[i].delivery_branch_code, packing_lists[j].delivery_branch_code)

\* The books table of each packing list holds the books of its branch, by style
\* descending, the books of one style in the order of the expanded list
C15_TablesSorted ==
    /\ Len(rendered) = Len(packing_lists)
    /\ \A i \in 1..Len(rendered) :
          /\ Len(rendered[i]) = packing_lists[i].total_books
          /\ \A a, b \in 1..Len(rendered[i]) :
                a < b => ~StrLess(rendered[i][a].book_style, rendered[i][b].book_style)
          /\ \A k \in 1..Len(expanded) :
                C15_RowsOf(rendered[i], expanded[k].book_style)
                    = C15_EntriesOf(packing_lists[i].delivery_branch_code, expanded[k].book_style)

\* C15 as stated: one packing list per distinct delivery branch code of the
\* expanded books, ascending by code; each books table by style descending, books
\* of one style in the order of the expanded list.
C15_OneListPerCode ==
    outcome = "ok" => C15_ListsOf(C15_Codes) /\ C15_TablesSorted

\* C15, amended: one packing list per distinct non-blank delivery branch code
\* (books of a blank code are in no list), ascending by code as a string; each
\* books table by style descending, books of one style in the order of the
\* expanded list.
C15_OneListPerNonBlankCode ==
    outcome = "ok" => C15_ListsOf(C15_Codes \ {<<>>}) /\ C15_TablesSorted

\* Two branches and a book of a blank code; a table whose rows are not in the
\* order of the list, with two books of one style in it
C15_Witness ==
    /\ outcome = "ok"
    /\ <<>> \in C15_Codes
    /\ Len(packing_lists) = 2
    /\ \E i \in 1..Len(rendered) :
          /\ rendered[i] # packing_lists[i].books
          /\ \E a, b \in 1..Len(rendered[i]) :
                /\ a < b
                /\ rendered[i][a].book_style = rendered[i][b].book_style
                /\ rendered[i][a] # rendered[i][b]

\* C16: the order number extracted from a file name is exactly 6 decimal digits,
\* whatever the name ("KCB-618.dat" gives "000618"): the digits after "KCB-", else
\* the first run of 3 to 6 digits, else the clock code, zero-padded or cut to 6.
C16_SixDigitOrderNumber ==
    outcome # "none" =>
        /\ Len(extracted_order_number) = 6
        /\ IsDigits(extracted_order_number)
        /\ path = PathKcb618 => extracted_order_number = <<"0", "0", "0", "6", "1", "8">>

\* C17: processing the file of one header line, one order line of style "01" with
\* 2 books from serial "000001", and one trailer line gives exactly one order
\* record and exactly 2 books, of serials "000001" then "000051", and a metadata
\* total_books of 2.
C17_HeaderOrderTrailer ==
    (outcome # "none" /\ file = ScenarioFile) =>
        /\ outcome = "ok"
        /\ Len(orders) = 1
        /\ total_orders = 1
        /\ Len(expanded) = 2
        /\ expanded[1].serial_number = <<"0", "0", "0", "0", "0", "1">>
        /\ expanded[2].serial_number = <<"0", "0", "0", "0", "5", "1">>
        /\ total_books = 2

\* The columns of each field of an order line: first column and the column after
\* the last, counted from 0
FieldColumns ==
    [ bank_id                |-> <<0, 2>>,
      order_id               |-> <<2, 3>>,
      priority               |-> <<3, 4>>,
      sort_code              |-> <<4, 9>>,
      account_number         |-> <<9, 19>>,
      check_digit            |-> <<19, 20>>,
      cheque_voucher_digits  |-> <<20, 22>>,
      credits_voucher_digits |-> <<22, 24>>,
      book_style             |-> <<24, 26>>,
      number_of_books        |-> <<26, 30>>,
      cheque_start_serial    |-> <<30, 36>>,
      credits_start_serial   |-> <<36, 42>>,
      personalization        |-> <<42, 78>>,
      branch_title           |-> <<78, 108>>,
      branch_address         |-> <<108, 138>>,
      signature_required     |-> <<138, 139>>,
      beneficiary_name       |-> <<139, 169>>,
      delivery_branch_code   |-> <<169, 174>>,
      delivery_branch_name   |-> <<174, 210>> ]

Fields == DOMAIN FieldColumns
StringFields == Fields \ {"number_of_books"}

\* The characters of the line, padded to 210, in the columns of a field
ColumnsOf(line, field) ==
    SubSeq(PadLine(line), FieldColumns[field][1] + 1, FieldColumns[field][2])

\* The string has only whitespace characters (or none)
IsBlank(s) == \A c \in 1..Len(s) : s[c] \in Whitespace

\* C18: the decoder is a function of the line text alone: the records decoded
\* from equal lines are equal whatever the parser held when the line was decoded,
\* decoding changes no state of the parser (the records decoded before stay as
\* they were, the file name and the extracted order number are those of the
\* path), and a string field whose columns hold only whitespace decodes to the
\* empty string.
C18_DecodePure ==
    /\ Len(source) = Len(orders)
    /\ \A i, j \in 1..Len(orders) : source[i] = source[j] => orders[i] = orders[j]
    /\ \A i \in 1..Len(orders) : Some(orders[i]) = parse_order_record(source[i])
    /\ \A i \in 1..Len(orders) : \A f \in StringFields :
          IsBlank(ColumnsOf(source[i], f)) => orders[i][f] = <<>>
    /\ outcome # "none" =>
          /\ filename = Basename(path)
          /\ \E now \in Clock :
                extracted_order_number = extract_order_number_from_filename(path, now)

\* The same line decoded by two calls, the parser holding another record at the
\* second call; a line with a blank field
C18_Witness ==
    /\ Len(orders) = 3
    /\ before = 2
    /\ source[1] = source[3]
    /\ source[2] # source[1]
    /\ orders[1] = orders[3]
    /\ \E f \in StringFields : IsBlank(ColumnsOf(source[2], f))

\* The fields of a book other than its serial number
C19_Rest(book) == [f \in (DOMAIN book) \ {"serial_number"} |-> book[f]]

\* The book carries the values of the order
C19_OfOrder(book, order) ==
    /\ book.book_style = order.book_style
    /\ book.book_type_description = C11_Info(order.book_style).type
    /\ book.currency = C11_Info(order.book_style).currency
    /\ book.leaves = C11_Info(order.book_style).leaves
    /\ book.branch_code = order.sort_code
    /\ book.account_number = order.account_number
    /\ book.account_name = order.personalization
    /\ book.branch_title = order.branch_title
    /\ book.branch_address = order.branch_address
    /\ book.delivery_branch_code = order.delivery_branch_code
    /\ book.delivery_branch_name = order.delivery_branch_name
    /\ book.number_of_books = order.number_of_books

\* C19: the books expanded from one order are equal in every field except the
\* serial number, and each of these fields has the order's value (branch_code the
\* order's sort code, account_name its personalization).
C19_BooksDifferOnlyInSerial ==
    outcome = "ok" =>
        \A i \in 1..Len(orders) : \A k \in 1..BookCount(orders[i]) :
            /\ C19_Rest(expanded[C10_Offset(i) + k]) = C19_Rest(expanded[C10_Offset(i) + 1])
            /\ C19_OfOrder(expanded[C10_Offset(i) + k], orders[i])

\* An order of three books with three different serials, after another order
C19_Witness ==
    /\ outcome = "ok"
    /\ Len(orders) = 2
    /\ orders[2].number_of_books = 3
    /\ orders[2].sort_code # orders[2].delivery_branch_code
    /\ Len(expanded) = C10_Offset(2) + 3
    /\ expanded[C10_Offset(2) + 1].serial_number # expanded[C10_Offset(2) + 2].serial_number
    /\ expanded[C10_Offset(2) + 2].serial_number # expanded[C10_Offset(2) + 3].serial_number
    /\ C19_Rest(expanded[C10_Offset(2) + 1]) = C19_Rest(expanded[C10_Offset(2) + 3])

\* The 19 column ranges are pairwise disjoint and cover columns 0 to 209
C20_RangesPartition ==
    /\ Cardinality(Fields) = 19
    /\ \A f, g \in Fields :
          f # g => \/ FieldColumns[f][2] <= FieldColumns[g][1]
                   \/ FieldColumns[g][2] <= FieldColumns[f][1]
    /\ \A c \in 0..(LineWidth - 1) :
          \E f \in Fields : FieldColumns[f][1] <= c /\ c < FieldColumns[f][2]

\* Lines to compare the line of the state with
C20_OtherLines == {LineA, LineC, LineH}

\* C20: each field of the OrderRecord depends only on its own columns of the
\* line: the 19 column ranges are pairwise disjoint and cover columns 0 to 209;
\* a string field is the stripped text of its columns, the number of books is
\* given by columns 26-29 alone, which also decide alone whether the line is
\* rejected; so two lines that agree on the columns of a field decode to the
\* same value of that field.
C20_OwnColumnsOnly ==
    /\ C20_RangesPartition
    /\ (outcome # "none" /\ Len(file) = 1 /\ IsOrderLine(file[1])) =>
          LET line == file[1]
              books == Strip(ColumnsOf(line, "number_of_books"))
          IN  /\ orders = <<>> <=> (books # <<>> /\ ~IntOK(books))
              /\ orders # <<>> =>
                    /\ Len(orders) = 1
                    /\ \A f \in StringFields : orders[1][f] = Strip(ColumnsOf(line, f))
                    /\ orders[1].number_of_books = (IF books = <<>> THEN 1 ELSE PyInt(books))
                    /\ \A other \in C20_OtherLines : \A f \in Fields :
                          ColumnsOf(other, f) = ColumnsOf(line, f)
                              => parse_order_record(other)[1][f] = orders[1][f]

\* A line that agrees with another line on the serial columns and differs from it
\* in the columns of the number of books and of the style
C20_Witness ==
    /\ outcome # "none"
    /\ Len(file) = 1
    /\ Len(orders) = 1
    /\ ColumnsOf(file[1], "cheque_start_serial") = ColumnsOf(LineA, "cheque_start_serial")
    /\ ColumnsOf(file[1], "number_of_books") # ColumnsOf(LineA, "number_of_books")
    /\ ColumnsOf(file[1], "book_style") # ColumnsOf(LineA, "book_style")
    /\ orders[1].cheque_start_serial = parse_order_record(LineA)[1].cheque_start_serial
    /\ orders[1].number_of_books # parse_order_record(LineA)[1].number_of_books
    /\ orders[1].book_style # parse_order_record(LineA)[1].book_style

\* C21: after a file has been parsed, the metadata are those of that file:
\* total_orders is the number of its lines accepted as order records, total_books
\* the sum of their numbers of books, bank_id is "01", run_number is the order
\* number extracted from the file name.
C21_MetadataOfOneFile ==
    outcome = "ok" =>
        /\ get_file_metadata.total_orders = Cardinality(C6_Accepted)
        /\ get_file_metadata.total_books = SumBooks(ReadLines(file, 1), 1)
        /\ get_file_metadata.bank_id = <<"0", "1">>
        /\ \E now \in Clock :
              get_file_metadata.run_number = extract_order_number_from_filename(path, now)

\* The positions in the expanded list of the books of a branch code
C22_BooksOf(code) == {k \in 1..Len(expanded) : Strip(expanded[k].delivery_branch_code) = code}

\* The first of them
C22_First(code) == CHOOSE k \in C22_BooksOf(code) : \A m \in C22_BooksOf(code) : k <= m

\* C22: the packing list of a branch has the delivery branch name of the first
\* book of that branch in the expanded list, also when later books of the branch
\* carry another name; the names on the books stay those of their orders.
C22_NameOfFirstBook ==
    outcome = "ok" =>
        /\ \A i \in 1..Len(packing_lists) :
              packing_lists[i].delivery_branch_name
                  = expanded[C22_First(packing_lists[i].delivery_branch_code)].delivery_branch_name
        /\ \A i \in 1..Len(orders) : \A k \in 1..BookCount(orders[i]) :
              expanded[C10_Offset(i) + k].delivery_branch_name = orders[i].delivery_branch_name

\* A branch whose first book and last book carry different names
C22_Witness ==
    /\ outcome = "ok"
    /\ \E i \in 1..Len(packing_lists) :
          \E k, m \in C22_BooksOf(packing_lists[i].delivery_branch_code) :
              /\ k = C22_First(packing_lists[i].delivery_branch_code)
              /\ k < m
              /\ expanded[k].delivery_branch_name # expanded[m].delivery_branch_name
              /\ packing_lists[i].delivery_branch_name = expanded[k].delivery_branch_name
              /\ \A n \in C22_BooksOf(packing_lists[i].delivery_branch_code) : n <= m

\* The sum of total_books over the first n packing lists
RECURSIVE C23_TotalBooks(_)
C23_TotalBooks(n) == IF n = 0 THEN 0 ELSE C23_TotalBooks(n - 1) + packing_lists[n].total_books

\* The packing lists of the delivery branch code of the k-th expanded book
C23_ListsOf(k) ==
    {i \in 1..Len(packing_lists) :
        packing_lists[i].delivery_branch_code = Strip(expanded[k].delivery_branch_code)}

\* Each list counts its entries, and its entries are the books of its branch in
\* the order of the expanded list
C23_ListsHoldTheirBooks ==
    \A i \in 1..Len(packing_lists) :
        LET of == C22_BooksOf(packing_lists[i].delivery_branch_code) IN
        /\ packing_lists[i].total_books = Len(packing_lists[i].books)
        /\ Len(packing_lists[i].books) = Cardinality(of)
        /\ \A k \in of :
              packing_lists[i].books[Cardinality({m \in of : m <= k})] = BookEntry(expanded[k])

\* The expanded books whose delivery branch code is not blank
C23_WithCode == {k \in 1..Len(expanded) : Strip(expanded[k].delivery_branch_code) # <<>>}

\* C23 as stated: every book of the expanded list, also one of a blank delivery
\* branch code, is in exactly one packing list, that of its code; each list's
\* total_books is its number of entries, and the total_books of all lists add up
\* to the length of the expanded list.
C23_GroupingConservesBooks ==
    outcome = "ok" =>
        /\ C23_ListsHoldTheirBooks
        /\ \A k \in 1..Len(expanded) : Cardinality(C23_ListsOf(k)) = 1
        /\ C23_TotalBooks(Len(packing_lists)) = Len(expanded)

\* C23, amended: every book of a non-blank delivery branch code is in exactly one
\* packing list, that of its code, and a book of a blank code is in none; each
\* list's total_books is its number of entries, and the total_books of all lists
\* add up to the number of expanded books of a non-blank code.
C23_GroupingConservesCodedBooks ==
    outcome = "ok" =>
        /\ C23_ListsHoldTheirBooks
        /\ \A k \in C23_WithCode : Cardinality(C23_ListsOf(k)) = 1
        /\ \A k \in (1..Len(expanded)) \ C23_WithCode : C23_ListsOf(k) = {}
        /\ C23_TotalBooks(Len(packing_lists)) = Cardinality(C23_WithCode)

\* Two branches, one of them with the books of two orders, and a book of a blank
\* code that no list holds
C23_Witness ==
    /\ outcome = "ok"
    /\ Len(packing_lists) = 2
    /\ C23_WithCode # 1..Len(expanded)
    /\ C23_TotalBooks(2) = Len(expanded) - 1
    /\ \E i \in 1..2 : \E a, b \in 1..Len(packing_lists[i].books) :
          packing_lists[i].books[a].account_number # packing_lists[i].books[b].account_number

\* The terminal statuses
C24_Terminal == {"completed", "failed"}

\* C24: in a call of PackingListService.process_dat_file the job's status is
\* set to 'processing' first and then to exactly one terminal status:
\* 'completed', with processed_at set and the PDF attached, if and only if the
\* call returns normally; 'failed', with error_message and processed_at set, if
\* the call raises; the job is not left in 'processing' when the call has ended,
\* and 'completed' is never followed by 'failed'.
C24_JobStatus ==
    call # "none" =>
        /\ job_statuses[1] = "processing"
        /\ Cardinality({i \in 1..Len(job_statuses) : job_statuses[i] \in C24_Terminal}) = 1
        /\ \A i \in 1..Len(job_statuses) :
              job_statuses[i] = "completed" => (call = "returned" /\ job.pdf_file)
        /\ call = "returned" => (job.status = "completed" /\ job.processed_at /\ job.pdf_file)
        /\ call = "raised" => (job.status = "failed" /\ job.error_message /\ job.processed_at)
        /\ job.status # "processing"
        /\ job_saved # <<>> => job_saved[Len(job_saved)] # "processing"
        /\ \A i, j \in 1..Len(job_statuses) :
              i < j => ~(job_statuses[i] = "completed" /\ job_statuses[j] = "failed")
        /\ \A i, j \in 1..Len(job_saved) :
              i < j => ~(job_saved[i] = "completed" /\ job_saved[j] = "failed")

====
